---------------------------- MODULE Spec2Model ----------------------------
(***************************************************************************)
(* PlanetsLayer (floating planets background): the mount effect, its       *)
(* resize / pointermove / animation-frame handlers and its cleanup, as a   *)
(* state machine over the browser window, the canvas and the effect's      *)
(* closure variables.                                                      *)
(*                                                                         *)
(* Numbers.  JavaScript numbers are modelled by exact scaled integers:     *)
(*   lengths (x, y, r, drift, mouseX, margin)   in 1/Unit of a pixel,      *)
(*   depth                                      in 1/100,                  *)
(*   devicePixelRatio, dpr, transform scale     in halves (3 = 1.5),       *)
(*   one Math.random() draw                     as u / UDen, 0 <= u < UDen.*)
(* props (count, minSize, maxSize, speed) and window.innerWidth/Height are *)
(* whole numbers of pixels.                                                *)
(***************************************************************************)
EXTENDS Integers, Sequences, FiniteSets, TLC

\* ------------------------------------------------------------------ bounds
MaxInst == 2
\* number of times the effect may run (instances of the animation)

MaxFrames == 3
\* number of step() executions per instance

MaxBandR == 180
\* largest radius (px) the band loop is run for

\* ------------------------------------------------------- model resolution
UDen == 4
\* Math.random() is sampled at k / UDen, k = 0 .. UDen - 1
Unit == 10 * UDen
\* lengths are counted in 1/Unit px, so that rand() and r * 1.8 are exact

\* ------------------------------------------------------ program constants
DprCap == 4
\* Math.min(devicePixelRatio || 1, 2), in halves
DprDefault == 2
\* devicePixelRatio || 1, in halves
ReducedPct == 40
\* count * 0.4
ReducedMin == 2
NPalettes == 5
RingPct == 35
DepthMin == 40
DepthMax == 100
DriftBase == 40
\* speed * (0.4 + depth)
MarginTenths == 18
\* p.r * 1.8
ParallaxPx == 12
NDraws == 12
\* Math.random() calls in one makePlanet()

\* ------------------------------------------------------------ input sets
Viewports == { <<2, 2>>, <<3, 4>> }
PixelRatios == { 0, 3, 6 }
\* devicePixelRatio in halves; 0 = undefined
Configs == { [count |-> 1,  minSize |-> 1, maxSize |-> 1, speed |-> 0],
             [count |-> 10, minSize |-> 1, maxSize |-> 3, speed |-> 2] }
Pointers == { <<3, 1>> }
\* clientX, clientY of a pointermove event

\* Streams of Math.random() results (numerators over UDen), read cyclically.
Streams == << <<0, 0, 1, 3, 0, 3, 0, 3, 2, 3, 1, 0, 2>>,
              <<3, 0, 2, 3, 1, 0, 3, 0, 3, 0, 2, 1, 1>> >>
Seeds == DOMAIN Streams

Min(a, b) == IF a < b THEN a ELSE b
Max(a, b) == IF a > b THEN a ELSE b

\* the k-th Math.random() of a run of the effect (k from 0)
Random(seed, k) == Streams[seed][(k % Len(Streams[seed])) + 1]

\* const rand = (a, b) => Math.random() * (b - a) + a
rand(u, a, b) == ((u * (b - a)) \div UDen) + a

\* const choice = (arr) => arr[(Math.random() * arr.length) | 0]   (index)
choice(u, n) == (u * n) \div UDen

VARIABLES
  innerWidth, innerHeight,   \* window.innerWidth / innerHeight (px)
  devicePixelRatio,          \* window.devicePixelRatio in halves, 0 = undefined
  reducedMotion,             \* matchMedia("(prefers-reduced-motion: reduce)").matches
  coarsePointer,             \* matchMedia("(pointer: coarse)").matches
  ctxAvailable,              \* whether c.getContext("2d") returns a context
  props,                     \* the component's current props
  canvas,                    \* c.width, c.height, scale of the ctx transform
  resizeListeners,           \* instances whose resize is registered on window
  moveListeners,             \* instances whose onMove is registered on window
  rafQueue,                  \* pending requestAnimationFrame callbacks
  inst,                      \* closure state of every run of the effect
  cur,                       \* the instance of the mounted component, 0 if none
  nInst,                     \* number of runs of the effect so far
  uncaught,                  \* errors thrown out of the effect or a handler
  hexOrRgb, alpha, rgba,     \* addAlpha: arguments and result
  bandR, bands               \* band loop of drawPlanet: radius, iterations

vars == << innerWidth, innerHeight, devicePixelRatio, reducedMotion,
           coarsePointer, ctxAvailable, props, canvas, resizeListeners,
           moveListeners, rafQueue, inst, cur, nInst, uncaught,
           hexOrRgb, alpha, rgba, bandR, bands >>

envVars == << devicePixelRatio, reducedMotion, coarsePointer, ctxAvailable >>
pureVars == << hexOrRgb, alpha, rgba, bandR, bands >>

Ids == 1 .. MaxInst

\* addAlpha has not been called
NotCalled == [done |-> FALSE, value |-> << >>]

\* `let raf;` before the first requestAnimationFrame
NoHandle == [inst |-> 0, n |-> 0]

\* closure of an effect that has not run, or that nothing references any more
NoClosure == [ status |-> "none", cfg |-> [count |-> 0, minSize |-> 0,
                                            maxSize |-> 0, speed |-> 0],
               dpr |-> 0, w |-> 0, h |-> 0,
               prefersReduced |-> FALSE, coarse |-> FALSE, TARGET |-> 0,
               PLANETS |-> << >>, mouseX |-> 0, mouseY |-> 0,
               raf |-> NoHandle, frames |-> 0, drawn |-> << >> ]

\* Math.min(window.devicePixelRatio || 1, 2)
dpr(ratio) == Min(IF ratio = 0 THEN DprDefault ELSE ratio, DprCap)

\* a population that ignores the reduced-motion preference
TARGET_Ignore(prefersReduced, count) == count

\* prefersReduced ? Math.max(2, Math.floor(count * 0.4)) : count
TARGET(prefersReduced, count) ==
  IF prefersReduced THEN Max(ReducedMin, (count * ReducedPct) \div 100)
  ELSE count

\* makePlanet(): the j-th planet (j from 0) of a run reading stream `seed`
makePlanet(seed, j, cfg, W, H) ==
  LET U(f)   == Random(seed, NDraws * j + f)
      r      == rand(U(1), cfg.minSize * Unit, cfg.maxSize * Unit)
      depth  == rand(U(3), DepthMin, DepthMax)
      drift  == (cfg.speed * Unit * (DriftBase + depth)) \div 100
  IN  [ x        |-> rand(U(5), -r, W * Unit + r),
        y        |-> rand(U(6), -r, H * Unit + r),
        r        |-> r,
        palette  |-> choice(U(0), NPalettes),
        depth    |-> depth,
        driftX   |-> rand(U(7), -drift, drift),
        driftY   |-> rand(U(8), -drift, drift),
        rot      |-> rand(U(9), 0, 628319),
        rotSpeed |-> rand(U(10), -150, 150),
        hasRing  |-> U(2) * 100 < RingPct * UDen,
        ringTilt |-> rand(U(11), -50, 50),
        hueShift |-> rand(U(4), -50, 50) ]

\* resize(): w = c.width = floor(innerWidth * dpr), ..., ctx.setTransform(dpr,..)
resize(W, H, d) ==
  [ width |-> (W * d) \div 2, height |-> (H * d) \div 2, scale |-> d ]

\* the part of resize() that runs before ctx.setTransform throws on a null
\* ctx: assigning c.width / c.height; there is no context to carry a scale
resizeNoCtx(W, H, d) ==
  [ width |-> (W * d) \div 2, height |-> (H * d) \div 2, scale |-> 0 ]

\* drawPlanet(p): the parallax-adjusted draw position, as exact fractions
\*   px = p.x + (mouseX - innerWidth / 2) * (12 * p.depth / innerWidth)
drawPlanet(p, mouseX, mouseY, W, H) ==
  [ pxNum |-> p.x * (100 * W) + (mouseX - (W * Unit) \div 2) * ParallaxPx * p.depth,
    pxDen |-> 100 * W,
    pyNum |-> p.y * (100 * H) + (mouseY - (H * Unit) \div 2) * ParallaxPx * p.depth,
    pyDen |-> 100 * H ]

\* a wrap that re-enters at the viewport edge instead of the far margin
wrap_Edge(v, margin, size) ==
  LET v1 == IF v < -margin THEN size ELSE v
  IN  IF v1 > size + margin THEN 0 ELSE v1

\* the four wrap tests of step(), in the order of the code
wrap(v, margin, size) ==
  LET v1 == IF v < -margin THEN size + margin ELSE v
  IN  IF v1 > size + margin THEN -margin ELSE v1

\* a step that bounces: the drift is reversed when the planet wraps
move_Bounce(p, W, H) ==
  LET margin == (p.r * MarginTenths) \div 10
      nx     == wrap(p.x + p.driftX, margin, W * Unit)
  IN  [ p EXCEPT !.x      = nx,
                 !.y      = wrap(p.y + p.driftY, margin, H * Unit),
                 !.rot    = p.rot + p.rotSpeed,
                 !.driftX = IF nx # p.x + p.driftX THEN -p.driftX ELSE p.driftX ]

\* a step that wraps at the physical buffer size (dpr 2) instead of the
\* logical viewport size
move_BufferSize(p, W, H) ==
  LET margin == (p.r * MarginTenths) \div 10
  IN  [ p EXCEPT !.x   = wrap(p.x + p.driftX, margin, 2 * W * Unit),
                 !.y   = wrap(p.y + p.driftY, margin, 2 * H * Unit),
                 !.rot = p.rot + p.rotSpeed ]

\* body of the for-loop of step() up to drawPlanet(p)
move(p, W, H) ==
  LET margin == (p.r * MarginTenths) \div 10
  IN  [ p EXCEPT !.x   = wrap(p.x + p.driftX, margin, W * Unit),
                 !.y   = wrap(p.y + p.driftY, margin, H * Unit),
                 !.rot = p.rot + p.rotSpeed ]

\* step(): move, wrap and draw every planet, then requestAnimationFrame(step)
step(c, i, W, H) ==
  LET moved == [ j \in DOMAIN c.PLANETS |-> move(c.PLANETS[j], W, H) ]
      h     == [inst |-> i, n |-> c.frames + 1]
  IN  [ c EXCEPT !.PLANETS = moved,
                 !.drawn   = [ j \in DOMAIN moved |->
                                 drawPlanet(moved[j], c.mouseX, c.mouseY, W, H) ],
                 !.frames  = c.frames + 1,
                 !.raf     = h ]

\* a step that requests a frame on entry as well as at its end
scheduled_Twice(c, i) ==
  { [inst |-> i, n |-> c.frames + 1], [inst |-> i, n |-> -(c.frames + 1)] }

\* handles step() passes to requestAnimationFrame in one execution
scheduled(c, i) == { [inst |-> i, n |-> c.frames + 1] }

\* the effect body, lines 19-233, for a usable context
effect(i, seed, cfg) ==
  LET d  == dpr(devicePixelRatio)
      T  == TARGET(reducedMotion, cfg.count)
      c0 == [ status |-> "mounted", cfg |-> cfg, dpr |-> d,
              w |-> (innerWidth * d) \div 2, h |-> (innerHeight * d) \div 2,
              prefersReduced |-> reducedMotion, coarse |-> coarsePointer,
              TARGET |-> T,
              PLANETS |-> [ j \in 1 .. T |->
                            makePlanet(seed, j - 1, cfg, innerWidth, innerHeight) ],
              mouseX |-> (innerWidth * Unit) \div 2,
              mouseY |-> (innerHeight * Unit) \div 2,
              raf |-> NoHandle, frames |-> 0, drawn |-> << >> ]
  IN  step(c0, i, innerWidth, innerHeight)

\* const onMove = (e) => { if (!coarse) { mouseX = e.clientX; ... } }
onMove(c, clientX, clientY) ==
  IF ~c.coarse THEN [ c EXCEPT !.mouseX = clientX * Unit,
                               !.mouseY = clientY * Unit ]
  ELSE c

\* a cleanup that removes the listeners but leaves the frame callback pending
cleanupCancels_NoCancel(c) == {}

\* the cleanup returned by the effect: which handles and listeners it removes
cleanupCancels(c) == { c.raf }
cleanupRemoves(i) == { i }

\* A closure that is torn down and that no listener or callback references
\* is garbage: only its cleanup function may still be called, and the handle
\* it holds is no longer pending.
collect(c, i, rl, ml, q) ==
  IF c.status = "torn" /\ i \notin rl /\ i \notin ml
     /\ \A hd \in q : hd.inst # i
  THEN [ NoClosure EXCEPT !.status = "torn", !.raf = [inst |-> i, n |-> 0] ]
  ELSE c


\* ------------------------------------------------------------ lifecycle
TypeOK ==
  /\ <<innerWidth, innerHeight>> \in Viewports
  /\ devicePixelRatio \in PixelRatios
  /\ reducedMotion \in BOOLEAN /\ coarsePointer \in BOOLEAN
  /\ ctxAvailable \in BOOLEAN
  /\ props \in Configs
  /\ resizeListeners \subseteq Ids /\ moveListeners \subseteq Ids
  /\ cur \in 0 .. MaxInst /\ nInst \in 0 .. MaxInst
  /\ \A i \in Ids : inst[i].status \in {"none", "mounted", "failed", "torn"}

Init ==
  /\ \E vp \in Viewports : innerWidth = vp[1] /\ innerHeight = vp[2]
  /\ devicePixelRatio \in PixelRatios
  /\ reducedMotion \in BOOLEAN
  /\ coarsePointer \in BOOLEAN
  /\ ctxAvailable \in BOOLEAN
  /\ props \in Configs
  /\ canvas = [width |-> 300, height |-> 150, scale |-> 2]
  /\ resizeListeners = {}
  /\ moveListeners = {}
  /\ rafQueue = {}
  /\ inst = [i \in Ids |-> NoClosure]
  /\ cur = 0
  /\ nInst = 0
  /\ uncaught = {}
  /\ hexOrRgb = << >> /\ alpha = 0 /\ rgba = NotCalled
  /\ bandR = 0 /\ bands = 0

\* One run of the effect as instance i, on top of the closures, listeners and
\* callbacks left by what ran before it in the same commit.
RunEffect(i, seed, cfg, base, rl, ml, q) ==
  IF ctxAvailable
  THEN LET c  == effect(i, seed, cfg)
           c0 == [c EXCEPT !.frames = 0]
       IN  /\ inst' = [base EXCEPT ![i] = c]
           /\ canvas' = resize(innerWidth, innerHeight, c.dpr)
           /\ resizeListeners' = rl \cup {i}
           /\ moveListeners' = ml \cup {i}
           /\ rafQueue' = q \cup scheduled(c0, i)
           /\ cur' = i
           /\ uncaught' = uncaught
  ELSE \* ctx is null: resize() throws at ctx.setTransform, the effect aborts
       /\ inst' = [base EXCEPT ![i] = [NoClosure EXCEPT !.status = "failed"]]
       /\ canvas' = resizeNoCtx(innerWidth, innerHeight, dpr(devicePixelRatio))
       /\ resizeListeners' = rl
       /\ moveListeners' = ml
       /\ rafQueue' = q
       /\ cur' = 0
       /\ uncaught' = uncaught \cup {"TypeError: ctx is null"}

\* The cleanup of instance i applied to listeners and callbacks.
AfterCleanupQ(i, q) == q \ cleanupCancels(inst[i])
AfterCleanupL(i, l) == l \ cleanupRemoves(i)
AfterCleanupInst(i) ==
  LET c == [inst[i] EXCEPT !.status = "torn"]
  IN  [inst EXCEPT ![i] = collect(c, i, AfterCleanupL(i, resizeListeners),
                                  AfterCleanupL(i, moveListeners),
                                  AfterCleanupQ(i, rafQueue))]

\* the component mounts: the effect runs
Activate(seed) ==
  /\ cur = 0
  /\ nInst < MaxInst
  /\ nInst' = nInst + 1
  /\ RunEffect(nInst + 1, seed, props, inst, resizeListeners, moveListeners,
               rafQueue)
  /\ UNCHANGED << innerWidth, innerHeight, envVars, props, pureVars >>

\* a dependency (count, minSize, maxSize, speed) changes: cleanup, then effect
Reconfigure(seed, cfg) ==
  /\ cur # 0
  /\ cfg # props
  /\ nInst < MaxInst
  /\ props' = cfg
  /\ nInst' = nInst + 1
  /\ RunEffect(nInst + 1, seed, cfg, AfterCleanupInst(cur),
               AfterCleanupL(cur, resizeListeners),
               AfterCleanupL(cur, moveListeners),
               AfterCleanupQ(cur, rafQueue))
  /\ UNCHANGED << innerWidth, innerHeight, envVars, pureVars >>

\* invoking the cleanup of instance i
Teardown(i) ==
  /\ inst' = AfterCleanupInst(i)
  /\ resizeListeners' = AfterCleanupL(i, resizeListeners)
  /\ moveListeners' = AfterCleanupL(i, moveListeners)
  /\ rafQueue' = AfterCleanupQ(i, rafQueue)
  /\ UNCHANGED << innerWidth, innerHeight, envVars, props, canvas, nInst,
                  uncaught, pureVars >>

\* the component unmounts
Deactivate ==
  /\ cur # 0
  /\ cur' = 0
  /\ Teardown(cur)

\* the cleanup of a torn-down instance is invoked once more
TeardownAgain(i) ==
  /\ inst[i].status = "torn"
  /\ cur' = cur
  /\ Teardown(i)

\* the browser runs one pending animation-frame callback
Frame(hd) ==
  /\ hd \in rafQueue
  /\ inst[hd.inst].frames < MaxFrames
  /\ inst' = [inst EXCEPT ![hd.inst] =
                step(inst[hd.inst], hd.inst, innerWidth, innerHeight)]
  /\ rafQueue' = (rafQueue \ {hd}) \cup scheduled(inst[hd.inst], hd.inst)
  /\ UNCHANGED << innerWidth, innerHeight, envVars, props, canvas,
                  resizeListeners, moveListeners, cur, nInst, uncaught,
                  pureVars >>

\* the viewport changes size and window dispatches "resize"
Resize(vp) ==
  /\ vp # <<innerWidth, innerHeight>>
  /\ innerWidth' = vp[1]
  /\ innerHeight' = vp[2]
  /\ inst' = [i \in Ids |->
               IF i \in resizeListeners
               THEN [inst[i] EXCEPT
                       !.w = resize(vp[1], vp[2], inst[i].dpr).width,
                       !.h = resize(vp[1], vp[2], inst[i].dpr).height]
               ELSE inst[i]]
  /\ canvas' = IF resizeListeners = {} THEN canvas
               ELSE LET last == CHOOSE i \in resizeListeners :
                                  \A k \in resizeListeners : k <= i
                    IN  resize(vp[1], vp[2], inst[last].dpr)
  /\ UNCHANGED << envVars, props, resizeListeners, moveListeners, rafQueue,
                  cur, nInst, uncaught, pureVars >>

\* window dispatches "pointermove"
PointerMove(pt) ==
  /\ moveListeners # {}
  /\ inst' = [i \in Ids |->
               IF i \in moveListeners THEN onMove(inst[i], pt[1], pt[2])
               ELSE inst[i]]
  /\ UNCHANGED << innerWidth, innerHeight, envVars, props, canvas,
                  resizeListeners, moveListeners, rafQueue, cur, nInst,
                  uncaught, pureVars >>

\* the environment: zoom or a move to another screen, media preferences
RatioChange(ratio) ==
  /\ ratio # devicePixelRatio
  /\ devicePixelRatio' = ratio
  /\ UNCHANGED << innerWidth, innerHeight, reducedMotion, coarsePointer,
                  ctxAvailable, props, canvas, resizeListeners, moveListeners,
                  rafQueue, inst, cur, nInst, uncaught, pureVars >>

MediaChange ==
  /\ \/ reducedMotion' = ~reducedMotion /\ coarsePointer' = coarsePointer
     \/ coarsePointer' = ~coarsePointer /\ reducedMotion' = reducedMotion
  /\ UNCHANGED << innerWidth, innerHeight, devicePixelRatio, ctxAvailable,
                  props, canvas, resizeListeners, moveListeners, rafQueue,
                  inst, cur, nInst, uncaught, pureVars >>

Next ==
  \/ \E seed \in Seeds : Activate(seed)
  \/ \E seed \in Seeds, cfg \in Configs : Reconfigure(seed, cfg)
  \/ Deactivate
  \/ \E i \in Ids : TeardownAgain(i)
  \/ \E hd \in rafQueue : Frame(hd)
  \/ \E vp \in Viewports : Resize(vp)
  \/ \E pt \in Pointers : PointerMove(pt)
  \/ \E ratio \in PixelRatios : RatioChange(ratio)
  \/ MediaChange

Spec == Init /\ [][Next]_vars


\* ------------------------------------------------------------- addAlpha
\* Strings are sequences of one-character strings.
HexDigits == << "0", "1", "2", "3", "4", "5", "6", "7", "8", "9",
                "a", "b", "c", "d", "e", "f", "A", "B", "C", "D", "E", "F" >>
IsHexDigit(ch) == \E k \in DOMAIN HexDigits : HexDigits[k] = ch
HexValue(ch) ==
  LET k == CHOOSE n \in DOMAIN HexDigits : HexDigits[n] = ch
  IN  IF k <= 16 THEN k - 1 ELSE k - 7

NaN == -1

\* parseInt(str, 16) on strings without whitespace, sign or 0x prefix: the
\* value of the longest prefix of hex digits, NaN when that prefix is empty.
\* Only the low 24 bits are kept: addAlpha reads no bit above them.
RECURSIVE parseHexFrom(_, _, _)
parseHexFrom(str, k, acc) ==
  IF k > Len(str) \/ ~IsHexDigit(str[k]) THEN acc
  ELSE parseHexFrom(str, k + 1, (16 * acc + HexValue(str[k])) % 16777216)

parseInt16(str) ==
  IF Len(str) = 0 \/ ~IsHexDigit(str[1]) THEN NaN ELSE parseHexFrom(str, 1, 0)

\* (n >> s) & 255 for s <= 16; NaN converts to 0
byteAt(n, s) == IF n = NaN THEN 0 ELSE (n \div (2 ^ s)) % 256

\* String(n) for a non-negative integer
RECURSIVE intToString(_)
intToString(n) ==
  IF n < 10 THEN << HexDigits[n + 1] >>
  ELSE intToString(n \div 10) \o << HexDigits[(n % 10) + 1] >>

\* String(a) for an alpha given in hundredths: 100 -> "1", 50 -> "0.5"
alphaToString(a) ==
  IF a % 100 = 0 THEN intToString(a \div 100)
  ELSE intToString(a \div 100) \o << "." >> \o
       (IF a % 10 = 0 THEN intToString((a % 100) \div 10)
        ELSE << HexDigits[((a % 100) \div 10) + 1], HexDigits[(a % 10) + 1] >>)

\* a byte extraction that takes green from the red byte
addAlphaShifts_Same == << 16, 16, 0 >>

\* the shifts of r, g, b in addAlpha
addAlphaShifts == << 16, 8, 0 >>

\* function addAlpha(hexOrRgb, a = 1)
addAlpha(str, a) ==
  IF Len(str) > 0 /\ str[1] = "#"
  THEN LET hex    == Tail(str)
           full   == IF Len(hex) = 3
                     THEN << hex[1], hex[1], hex[2], hex[2], hex[3], hex[3] >>
                     ELSE hex
           bigint == parseInt16(full)
       IN  << "r", "g", "b", "a", "(" >>
             \o intToString(byteAt(bigint, addAlphaShifts[1])) \o << "," >>
             \o intToString(byteAt(bigint, addAlphaShifts[2])) \o << "," >>
             \o intToString(byteAt(bigint, addAlphaShifts[3])) \o << "," >>
             \o alphaToString(a) \o << ")" >>
  ELSE str

\* inputs of addAlpha
HexSample == { "0", "9", "a", "F" }
Alphas == { 0, 16, 50, 100 }
OtherColors == { << >>,
                 << "r", "e", "d" >>,
                 << "r", "g", "b", "a", "(", "0", ",", "0", ",", "0", ",",
                    "0", ".", "5", ")" >>,
                 << "F", "F", "F" >>,
                 << "a", "#", "0", "0", "0" >>,
                 << "#", "g", "F", "F" >>,
                 << "#", "F", "F" >> }
ColorInputs ==
  { << "#" >> \o d : d \in [1 .. 6 -> HexSample] \cup [1 .. 3 -> HexSample] }
    \cup OtherColors

\* the lifecycle at rest, for the specifications of the pure functions
Unmounted ==
  /\ innerWidth = 2 /\ innerHeight = 2
  /\ devicePixelRatio = 0
  /\ reducedMotion = FALSE /\ coarsePointer = FALSE /\ ctxAvailable = TRUE
  /\ props \in { c \in Configs : c.count = 1 }
  /\ canvas = [width |-> 300, height |-> 150, scale |-> 2]
  /\ resizeListeners = {} /\ moveListeners = {} /\ rafQueue = {}
  /\ inst = [i \in Ids |-> NoClosure]
  /\ cur = 0 /\ nInst = 0 /\ uncaught = {}

lifecycleVars == << innerWidth, innerHeight, envVars, props, canvas,
                    resizeListeners, moveListeners, rafQueue, inst, cur,
                    nInst, uncaught >>

InitColor ==
  /\ Unmounted
  /\ hexOrRgb \in ColorInputs
  /\ alpha \in Alphas
  /\ rgba = NotCalled
  /\ bandR = 0 /\ bands = 0

AddAlpha ==
  /\ ~rgba.done
  /\ rgba' = [done |-> TRUE, value |-> addAlpha(hexOrRgb, alpha)]
  /\ UNCHANGED << lifecycleVars, hexOrRgb, alpha, bandR, bands >>

NextColor == AddAlpha

SpecColor == InitColor /\ [][NextColor]_vars

\* ------------------------------------------------- drawPlanet band loop
\* i += p.r * 0.3: five strips
bandInc_Wide(r) == 30 * r

\* i += p.r * 0.18, in 1/100 px for r in px
bandInc(r) == 18 * r

\* for (let i = -p.r * 0.6; i <= p.r * 0.6; i += p.r * 0.18): iterations
RECURSIVE bandLoop(_, _, _)
bandLoop(i, r, n) ==
  IF i <= 60 * r THEN bandLoop(i + bandInc(r), r, n + 1) ELSE n

InitBands ==
  /\ Unmounted
  /\ hexOrRgb = << >> /\ alpha = 0 /\ rgba = NotCalled
  /\ bandR \in 1 .. MaxBandR
  /\ bands = 0

DrawBands ==
  /\ bands = 0
  /\ bands' = bandLoop(-60 * bandR, bandR, 0)
  /\ UNCHANGED << lifecycleVars, hexOrRgb, alpha, rgba, bandR >>

NextBands == DrawBands

SpecBands == InitBands /\ [][NextBands]_vars

\* ---------------------------------------------------------------- claims
Pending(i) == { hd \in rafQueue : hd.inst = i }
Mounted(i) == inst[i].status = "mounted"
Torn(i) == inst[i].status = "torn"

\* C1: once the cleanup of an instance has been invoked (one or more times),
\* no error has been raised, the instance has no resize listener, no
\* pointermove listener and no pending frame callback, and its step never
\* runs again.
C1_TeardownReleasesAll ==
  /\ [](\A i \in Ids : Torn(i) =>
          /\ uncaught = {}
          /\ i \notin resizeListeners
          /\ i \notin moveListeners
          /\ Pending(i) = {})
  /\ [][\A i \in Ids : Torn(i) => inst'[i].frames = inst[i].frames]_vars

\* an instance torn down by a reconfiguration while its successor animates
C1_Witness ==
  /\ Torn(1) /\ cur = 2 /\ Mounted(2)
  /\ inst[2].frames >= 2 /\ Pending(2) # {}

\* C2: when getContext returns no context, activation raises no error.
C2_NoContextNoError == ~ctxAvailable => uncaught = {}

\* C3: at most one frame callback of an instance is pending at any time,
\* and a callback is requested only by a step that has just completed.
C3_OneFrameAtATime ==
  /\ [](\A i \in Ids : Cardinality(Pending(i)) <= 1)
  /\ [][\A hd \in rafQueue' \ rafQueue :
          /\ inst'[hd.inst].frames = inst[hd.inst].frames + 1
          /\ inst'[hd.inst].raf = hd]_vars

C3_Witness ==
  \E i \in Ids : Mounted(i) /\ inst[i].frames >= 2
                 /\ Cardinality(Pending(i)) = 1

\* C4: from activation to teardown the population has count bodies when the
\* reduced-motion preference was inactive at activation and
\* max(2, floor(count * 0.4)) bodies when it was active (4 for count = 10),
\* whatever frames, resizes, pointer moves and preference changes follow.
C4_PopulationFixed ==
  \A i \in Ids : Mounted(i) =>
    LET n == inst[i].cfg.count
        reduced == IF (4 * n) \div 10 > 2 THEN (4 * n) \div 10 ELSE 2
    IN  /\ Len(inst[i].PLANETS) = IF inst[i].prefersReduced THEN reduced ELSE n
        /\ (inst[i].prefersReduced /\ n = 10) => Len(inst[i].PLANETS) = 4

\* count = 10 under reduced motion, after frames and a live preference change
C4_Witness ==
  \E i \in Ids : /\ Mounted(i) /\ inst[i].cfg.count = 10
                 /\ inst[i].prefersReduced /\ ~reducedMotion
                 /\ inst[i].frames >= 2
                 /\ Len(inst[i].PLANETS) = 4

\* C5: a step places a body whose advanced x is below -margin at
\* viewportWidth + margin, above viewportWidth + margin at -margin, and
\* leaves an advanced x within the margins as it is; likewise for y with
\* the viewport height; margin = 1.8 * radius.
C5_Axis(old, drift, new, r, size) ==
  LET adv == old + drift
      m   == (9 * r) \div 5
  IN  /\ adv < -m => new = size + m
      /\ adv > size + m => new = -m
      /\ (adv >= -m /\ adv <= size + m) => new = adv

C5_Wraparound ==
  [][\A i \in Ids :
       (Mounted(i) /\ inst'[i].frames = inst[i].frames + 1) =>
         \A j \in DOMAIN inst[i].PLANETS :
           LET p == inst[i].PLANETS[j]
               q == inst'[i].PLANETS[j]
           IN  /\ C5_Axis(p.x, p.driftX, q.x, p.r, innerWidth * Unit)
               /\ C5_Axis(p.y, p.driftY, q.y, p.r, innerHeight * Unit)]_vars

\* a body that has just re-entered from the left at the right margin
C5_Witness ==
  \E i \in Ids : Mounted(i) /\ inst[i].frames >= 2 /\
    \E j \in DOMAIN inst[i].PLANETS :
      LET p == inst[i].PLANETS[j]
      IN  p.driftX < 0 /\ p.x = innerWidth * Unit + (9 * p.r) \div 5

\* C6: after a resize event is handled, the buffer is the new viewport size
\* times min(devicePixelRatio, 2) as it is at the time of the resize (whole
\* pixels), and the transform scale is that ratio.
C6_ResizeUsesCurrentRatio ==
  [][(<<innerWidth', innerHeight'>> # <<innerWidth, innerHeight>>
        /\ resizeListeners # {}) =>
       LET ratio == IF devicePixelRatio' = 0 THEN 2
                    ELSE IF devicePixelRatio' > 4 THEN 4 ELSE devicePixelRatio'
       IN  /\ canvas'.width = (innerWidth' * ratio) \div 2
           /\ canvas'.height = (innerHeight' * ratio) \div 2
           /\ canvas'.scale = ratio]_vars

\* C7: on a coarse pointer every body is drawn at its simulated position.
C7_CoarseParallaxCentered ==
  \A i \in Ids : (Mounted(i) /\ inst[i].coarse) =>
    \A j \in DOMAIN inst[i].drawn :
      /\ inst[i].drawn[j].pxNum = inst[i].PLANETS[j].x * inst[i].drawn[j].pxDen
      /\ inst[i].drawn[j].pyNum = inst[i].PLANETS[j].y * inst[i].drawn[j].pyDen

\* C10: a step changes only x, y and rot of a body; in every state
\* minSize <= r <= maxSize, 0.4 <= depth <= 1.0, |driftX|, |driftY| <=
\* 2 * speed, and the palette is the one chosen at creation.
C10_Abs(v) == IF v < 0 THEN -v ELSE v

C10_OnlyPositionChanges ==
  /\ [](\A i \in Ids : Mounted(i) =>
          \A j \in DOMAIN inst[i].PLANETS :
            LET p == inst[i].PLANETS[j]
            IN  /\ inst[i].cfg.minSize * Unit <= p.r
                /\ p.r <= inst[i].cfg.maxSize * Unit
                /\ 40 <= p.depth /\ p.depth <= 100
                /\ C10_Abs(p.driftX) <= 2 * inst[i].cfg.speed * Unit
                /\ C10_Abs(p.driftY) <= 2 * inst[i].cfg.speed * Unit
                /\ p.palette \in 0 .. 4)
  /\ [][\A i \in Ids : (Mounted(i) /\ inst'[i].status = "mounted") =>
          /\ DOMAIN inst'[i].PLANETS = DOMAIN inst[i].PLANETS
          /\ \A j \in DOMAIN inst[i].PLANETS :
               LET p == inst[i].PLANETS[j]
                   q == inst'[i].PLANETS[j]
               IN  [q EXCEPT !.x = 0, !.y = 0, !.rot = 0]
                     = [p EXCEPT !.x = 0, !.y = 0, !.rot = 0]]_vars

\* bodies that have drifted, wrapped and turned for several frames
C10_Witness ==
  \E i \in Ids : Mounted(i) /\ inst[i].frames >= 3 /\
    \E j \in DOMAIN inst[i].PLANETS :
      LET p == inst[i].PLANETS[j]
      IN  p.driftX # 0 /\ p.rotSpeed # 0
          /\ p.x = -((9 * p.r) \div 5)

\* C8: addAlpha turns #RRGGBB into rgba(R,G,B,a) with the decimal values of
\* the three bytes (#FFFFFF at 0.5 gives rgba(255,255,255,0.5)), treats #RGB
\* as #RRGGBB with each digit doubled, and returns every input that does not
\* start with # unchanged.
C8_IsHex(str, n) ==
  /\ Len(str) = n + 1 /\ str[1] = "#"
  /\ \A k \in 2 .. n + 1 : IsHexDigit(str[k])

C8_Rgba(r, g, b, a) ==
  << "r", "g", "b", "a", "(" >> \o intToString(r) \o << "," >>
    \o intToString(g) \o << "," >> \o intToString(b) \o << "," >>
    \o alphaToString(a) \o << ")" >>

C8_AddAlpha ==
  rgba.done =>
    LET v(k) == HexValue(hexOrRgb[k])
    IN  /\ C8_IsHex(hexOrRgb, 6) =>
             rgba.value = C8_Rgba(16 * v(2) + v(3), 16 * v(4) + v(5),
                                  16 * v(6) + v(7), alpha)
        /\ C8_IsHex(hexOrRgb, 3) =>
             rgba.value = C8_Rgba(17 * v(2), 17 * v(3), 17 * v(4), alpha)
        /\ (Len(hexOrRgb) = 0 \/ hexOrRgb[1] # "#") => rgba.value = hexOrRgb
        /\ (hexOrRgb = << "#", "F", "F", "F", "F", "F", "F" >> /\ alpha = 50) =>
             rgba.value = << "r", "g", "b", "a", "(", "2", "5", "5", ",",
                             "2", "5", "5", ",", "2", "5", "5", ",",
                             "0", ".", "5", ")" >>

\* a colour with three different bytes has been converted
C8_Witness ==
  /\ rgba.done
  /\ hexOrRgb = << "#", "F", "F", "9", "a", "0", "0" >>
  /\ alpha = 50
  /\ rgba.value = << "r", "g", "b", "a", "(", "2", "5", "5", ",",
                     "1", "5", "4", ",", "0", ",", "0", ".", "5", ")" >>

\* C9 as claimed: the band loop of drawPlanet runs 3 to 5 times.
C9_ThreeToFiveBands == bands # 0 => (3 <= bands /\ bands <= 5)

\* C9 (amended): the band loop of drawPlanet runs exactly 7 times.
C9_SevenBands == bands # 0 => bands = 7

C9_Witness == bandR = 60 /\ bands = 7

\* C11: immediately after every step (the one run by the effect included),
\* every body of the stepping instance has -1.8 r <= x <= viewportWidth +
\* 1.8 r and -1.8 r <= y <= viewportHeight + 1.8 r for the viewport size at
\* that step, also when a resize left it beyond the far margin before it.
C11_Within(v, r, size) ==
  /\ 5 * v >= -(9 * r)
  /\ 5 * v <= 5 * size + 9 * r

C11_StepKeepsWithinMargins ==
  [][\A i \in Ids :
       inst'[i].frames = inst[i].frames + 1 =>
         \A j \in DOMAIN inst'[i].PLANETS :
           LET q == inst'[i].PLANETS[j]
           IN  /\ C11_Within(q.x, q.r, innerWidth' * Unit)
               /\ C11_Within(q.y, q.r, innerHeight' * Unit)]_vars

\* a body that does not drift right or down, yet sits at the near margin:
\* a shrink of the viewport left it beyond the far margin and the step that
\* followed took it across
C11_Witness ==
  \E i \in Ids : Mounted(i) /\ inst[i].frames >= 2 /\
    \E j \in DOMAIN inst[i].PLANETS :
      LET p == inst[i].PLANETS[j]
      IN  \/ p.driftX <= 0 /\ 5 * p.x = -(9 * p.r)
          \/ p.driftY <= 0 /\ 5 * p.y = -(9 * p.r)

=============================================================================
